---------------------------- MODULE Spec2Model ----------------------------
(***************************************************************************)
(* Kinematic model, forward kinematics and stochastic IK search of the     *)
(* URDF viewer (URDFReader, URDFIKSolver, RobotKinematics, JointAnimator). *)
(*                                                                         *)
(* Numbers.  Angles are counted in quarter turns (1 = pi/2) and lengths in *)
(* whole units, so that every rotation matrix the code builds has integer  *)
(* entries and matrix products are exact.  A joint value is one scalar, as *)
(* in the code: calculateFK reads it as an angle for a revolute joint and  *)
(* as a distance for a prismatic joint.  Costs are fixed-point numbers in  *)
(* thousandths (Math.sqrt and Math.acos rounded down to 1/1000).           *)
(***************************************************************************)
EXTENDS Integers, Sequences, FiniteSets, TLC

\* ------------------------------------------------------------------ bounds
MaxAngle == 2

\* ------------------------------------------------------- program constants
\* Number.POSITIVE_INFINITY: larger than every cost the model can compute
Infinity == 1000000000

\* ------------------------------------------------------------ vector maths
Vec(x, y, z) == <<x, y, z>>
ZeroVec == <<0, 0, 0>>
VecAdd(a, b) == <<a[1] + b[1], a[2] + b[2], a[3] + b[3]>>
VecSub(a, b) == <<a[1] - b[1], a[2] - b[2], a[3] - b[3]>>
VecScale(a, k) == <<a[1] * k, a[2] * k, a[3] * k>>
Dot(a, b) == a[1] * b[1] + a[2] * b[2] + a[3] * b[3]
Abs(x) == IF x < 0 THEN -x ELSE x

\* THREE.Vector3.normalize for the axis-aligned vectors used here:
\* divideScalar(length() || 1), so the zero vector stays zero.
Normalize(a) ==
    LET len == Abs(a[1]) + Abs(a[2]) + Abs(a[3])
    IN  IF len = 0 THEN a ELSE <<a[1] \div len, a[2] \div len, a[3] \div len>>

\* cos and sin of k quarter turns
Cos4(k) == CASE k % 4 = 0 -> 1 [] k % 4 = 1 -> 0 [] k % 4 = 2 -> -1 [] OTHER -> 0
Sin4(k) == CASE k % 4 = 0 -> 0 [] k % 4 = 1 -> 1 [] k % 4 = 2 -> 0 [] OTHER -> -1

\* ------------------------------------------------------------ matrix maths
IdentityRot == <<<<1, 0, 0>>, <<0, 1, 0>>, <<0, 0, 1>>>>
Col(m, j) == <<m[1][j], m[2][j], m[3][j]>>
MatRow(r, b) == <<Dot(r, Col(b, 1)), Dot(r, Col(b, 2)), Dot(r, Col(b, 3))>>
MatMul(a, b) == <<MatRow(a[1], b), MatRow(a[2], b), MatRow(a[3], b)>>
MatVec(a, v) == <<Dot(a[1], v), Dot(a[2], v), Dot(a[3], v)>>
Transpose(m) == <<Col(m, 1), Col(m, 2), Col(m, 3)>>
Trace(m) == m[1][1] + m[2][2] + m[3][3]

RotX(k) == <<<<1, 0, 0>>, <<0, Cos4(k), -Sin4(k)>>, <<0, Sin4(k), Cos4(k)>>>>
RotY(k) == <<<<Cos4(k), 0, Sin4(k)>>, <<0, 1, 0>>, <<-Sin4(k), 0, Cos4(k)>>>>
RotZ(k) == <<<<Cos4(k), -Sin4(k), 0>>, <<Sin4(k), Cos4(k), 0>>, <<0, 0, 1>>>>

\* THREE.Euler(r, p, y, 'XYZ') as a rotation: Rx * Ry * Rz
EulerXYZ(rpy) == MatMul(MatMul(RotX(rpy[1]), RotY(rpy[2])), RotZ(rpy[3]))

\* THREE.Matrix4.makeRotationAxis(axis, angle), rotation part
makeRotationAxis(axis, angle) ==
    LET c == Cos4(angle)
        s == Sin4(angle)
        t == 1 - c
        x == axis[1]
        y == axis[2]
        z == axis[3]
    IN  <<<<t * x * x + c,     t * x * y - s * z, t * x * z + s * y>>,
          <<t * x * y + s * z, t * y * y + c,     t * y * z - s * x>>,
          <<t * x * z - s * y, t * y * z + s * x, t * z * z + c>>>>

\* Quaternion.setFromAxisAngle(axis, angle) followed by
\* Matrix4.makeRotationFromQuaternion: the quaternion of a zero axis is
\* (0, 0, 0, cos(angle / 2)), whose matrix is the identity; for a unit axis
\* the matrix is the rotation about the axis
makeRotationFromAxisAngle(axis, angle) ==
    IF axis = <<0, 0, 0>> THEN IdentityRot ELSE makeRotationAxis(axis, angle)

\* A rigid transform (THREE.Matrix4 with unit scale): rotation and position.
Transform(rot, pos) == [rot |-> rot, pos |-> pos]
IdentityTransform == Transform(IdentityRot, ZeroVec)

\* THREE.Matrix4.multiply: a := a * b
multiply(a, b) == Transform(MatMul(a.rot, b.rot), VecAdd(MatVec(a.rot, b.pos), a.pos))

\* THREE.Matrix4.setPosition: overwrite the translation column
setPosition(m, p) == Transform(m.rot, p)

\* THREE.Matrix4.makeTranslation
makeTranslation(v) == Transform(IdentityRot, v)

\* TransformationUtils.createTransformMatrix / Matrix4.compose(xyz, quat(rpy), 1)
createTransformMatrix(xyz, rpy) == Transform(EulerXYZ(rpy), xyz)

\* Matrix4.decompose: position and orientation of a transform
decomposeTransform(m) == [isNull |-> FALSE, position |-> m.pos, orientation |-> m.rot]
NullPose == [isNull |-> TRUE, position |-> ZeroVec, orientation |-> IdentityRot]

\* ------------------------------------------------------------- data model
\* null / undefined link and joint names
Null == ""

Origin(xyz, rpy) == [defined |-> TRUE, xyz |-> xyz, rpy |-> rpy]
NoOrigin == [defined |-> FALSE, xyz |-> ZeroVec, rpy |-> ZeroVec]
Limit(lower, upper) == [defined |-> TRUE, lower |-> lower, upper |-> upper]
NoLimit == [defined |-> FALSE, lower |-> 0, upper |-> 0]
Visual(origin) == [defined |-> TRUE, origin |-> origin]
NoVisual == [defined |-> FALSE, origin |-> NoOrigin]

\* A link record as URDFReader.parseLink builds it.
Link(name, visual) == [name |-> name, visual |-> visual]

\* A joint record as URDFReader.parseJoint builds it.  The parser stores the
\* limit pair in the field `limit`; `limits` is the field URDFIKSolver and
\* RobotKinematics read, which the parser never sets.
Joint(name, type, parent, child, origin, axis, limit) ==
    [name |-> name, type |-> type, parent |-> parent, child |-> child,
     origin |-> origin, axis |-> axis, limit |-> limit, limits |-> NoLimit]

Range(s) == {s[i] : i \in DOMAIN s}
LinkNames(robot) == {l.name : l \in Range(robot.links)}
JointNames(robot) == {j.name : j \in Range(robot.joints)}

\* Map.get on robot.joints / robot.links (the name is known to be a key)
GetJoint(robot, name) == CHOOSE j \in Range(robot.joints) : j.name = name
GetLink(robot, name) == CHOOSE l \in Range(robot.links) : l.name = name

\* URDFReader.buildTree: links that are not children in any joint
rootLinks(robot) ==
    {l \in LinkNames(robot) : \A j \in Range(robot.joints) : j.child # l}

\* the joints the IK solver snapshots, perturbs and stores
IsSearchJoint(j) == j.type = "revolute" \/ j.type = "prismatic"
SearchJoints(robot) == {j.name : j \in {k \in Range(robot.joints) : IsSearchJoint(k)}}
\* URDFReader.getMovableJoints
getMovableJoints(robot) == {j.name : j \in {k \in Range(robot.joints) : k.type # "fixed"}}

\* ------------------------------------------------------------ chain builder
\* index of the first joint (declaration order) whose child is the link, 0 if none
FirstJointWithChild(joints, link) ==
    LET hits == {i \in DOMAIN joints : joints[i].child = link}
    IN  IF hits = {} THEN 0 ELSE CHOOSE i \in hits : \A k \in hits : i <= k

\* The while loop of computeJointChain / calculateFK, one iteration per call.
\* fuel counts the iterations left; terminated = FALSE means the loop was
\* still running when the fuel ran out.
RECURSIVE ChainWalk(_, _, _, _)
ChainWalk(joints, currentLink, chain, fuel) ==
    IF currentLink = Null THEN [chain |-> chain, terminated |-> TRUE]
    ELSE IF fuel = 0 THEN [chain |-> chain, terminated |-> FALSE]
    ELSE LET i == FirstJointWithChild(joints, currentLink)
         IN  IF i = 0 THEN [chain |-> chain, terminated |-> TRUE]
             ELSE LET entry == [joint |-> joints[i], childLink |-> currentLink,
                                parentLink |-> joints[i].parent]
                  IN  IF joints[i].parent = Null
                      THEN [chain |-> <<entry>> \o chain, terminated |-> TRUE]
                      ELSE ChainWalk(joints, joints[i].parent, <<entry>> \o chain, fuel - 1)

Reverse(seq) == [i \in 1..Len(seq) |-> seq[Len(seq) + 1 - i]]
computeJointChainTipFirst(robot, endEffectorName) ==
    Reverse(ChainWalk(robot.joints, endEffectorName, <<>>, Len(robot.joints) + 1).chain)

\* RobotKinematics.computeJointChain
computeJointChain(robot, endEffectorName) ==
    ChainWalk(robot.joints, endEffectorName, <<>>, Len(robot.joints) + 1).chain

\* ------------------------------------------------------ forward kinematics
\* jointAngles is a Map: a function whose DOMAIN is the set of its keys.
EmptyMap == [n \in {} |-> 0]
Has(map, name) == name \in DOMAIN map

\* child-link visual origin, composed into the accumulator when present
VisualStep(robot, result, childLink) ==
    IF childLink \in LinkNames(robot)
       /\ GetLink(robot, childLink).visual.defined
       /\ GetLink(robot, childLink).visual.origin.defined
    THEN LET o == GetLink(robot, childLink).visual.origin
         IN  multiply(result, createTransformMatrix(o.xyz, o.rpy))
    ELSE result

\* the axis FK and the search step use: `jointData.axis || [0, 0, 1]`,
\* normalised; the parser always stores an array, and an array is truthy, so
\* the default is never taken for a parsed joint
axisVec(jointData) == Normalize(jointData.axis)

\* joint motion of URDFIKSolver.calculateFK: a rotation for a revolute joint,
\* a translation for a prismatic joint, nothing for any other joint or for a
\* joint without an entry in the assignment
SolverMotionStep(result, jointData, jointAngles) ==
    IF IsSearchJoint(jointData) /\ Has(jointAngles, jointData.name)
    THEN LET angle == jointAngles[jointData.name]
         IN  IF jointData.type = "revolute"
             THEN multiply(result, Transform(makeRotationAxis(axisVec(jointData), angle), ZeroVec))
             ELSE multiply(result, makeTranslation(VecScale(axisVec(jointData), angle)))
    ELSE result

\* a loop pass that composes the child link's visual origin before the motion
SolverFKStepVisualBeforeMotion(robot, result, item, jointAngles) ==
    LET jointData == item.joint
        afterOrigin ==
            IF jointData.origin.defined
            THEN multiply(result, createTransformMatrix(jointData.origin.xyz, jointData.origin.rpy))
            ELSE result
        afterVisual == VisualStep(robot, afterOrigin, item.childLink)
    IN  SolverMotionStep(afterVisual, jointData, jointAngles)

\* one iteration of the loop over the chain in URDFIKSolver.calculateFK
SolverFKStep(robot, result, item, jointAngles) ==
    LET jointData == item.joint
        afterOrigin ==
            IF jointData.origin.defined
            THEN multiply(result, createTransformMatrix(jointData.origin.xyz, jointData.origin.rpy))
            ELSE result
        afterMotion == SolverMotionStep(afterOrigin, jointData, jointAngles)
    IN  VisualStep(robot, afterMotion, item.childLink)

RECURSIVE SolverFKFold(_, _, _, _, _)
SolverFKFold(robot, chain, i, result, jointAngles) ==
    IF i > Len(chain) THEN result
    ELSE SolverFKFold(robot, chain, i + 1, SolverFKStep(robot, result, chain[i], jointAngles), jointAngles)

\* URDFIKSolver.calculateFK(jointAngles); rootOffset is robotModel.position
calculateFK(robot, endEffectorName, rootOffset, jointAngles) ==
    IF endEffectorName = Null THEN NullPose
    ELSE LET chain == computeJointChain(robot, endEffectorName)
             start == setPosition(IdentityTransform, rootOffset)
         IN  decomposeTransform(SolverFKFold(robot, chain, 1, start, jointAngles))

\* one iteration of the loop over the chain in RobotKinematics.calculateFK:
\* the angle is jointAngles.get(name) || 0 and the motion is always a rotation
KinematicsFKStep(robot, result, item, jointAngles) ==
    LET joint == item.joint
        angle == IF Has(jointAngles, joint.name) THEN jointAngles[joint.name] ELSE 0
        jointTransform == createTransformMatrix(joint.origin.xyz, joint.origin.rpy)
        rotMatrix == Transform(makeRotationFromAxisAngle(Normalize(joint.axis), angle), ZeroVec)
    IN  VisualStep(robot, multiply(multiply(result, jointTransform), rotMatrix), item.childLink)

RECURSIVE KinematicsFKFold(_, _, _, _, _)
KinematicsFKFold(robot, chain, i, result, jointAngles) ==
    IF i > Len(chain) THEN result
    ELSE KinematicsFKFold(robot, chain, i + 1,
                          KinematicsFKStep(robot, result, chain[i], jointAngles), jointAngles)

KinematicsCalculateFKNoOffset(robot, endEffectorName, jointAngles, rootOffset) ==
    LET chain == computeJointChain(robot, endEffectorName)
    IN  decomposeTransform(KinematicsFKFold(robot, chain, 1, IdentityTransform, jointAngles))

\* RobotKinematics.calculateFK(jointAngles, rootOffset) of an instance built
\* for endEffectorName; rootOffset.defined = FALSE is rootOffset = null
KinematicsCalculateFK(robot, endEffectorName, jointAngles, rootOffset) ==
    LET chain == computeJointChain(robot, endEffectorName)
        start == IF rootOffset.defined
                 THEN setPosition(IdentityTransform, rootOffset.xyz)
                 ELSE IdentityTransform
    IN  decomposeTransform(KinematicsFKFold(robot, chain, 1, start, jointAngles))

\* -------------------------------------------------------------- scene graph
\* URDFVisualizer.visualizeRobot: a joint gets a scene object (a group holding
\* the child link's group, itself added to the parent link's group) when both
\* of its links exist
HasJointObject(robot, j) == j.parent \in LinkNames(robot) /\ j.child \in LinkNames(robot)
JointObjectNames(robot) == {j.name : j \in {k \in Range(robot.joints) : HasJointObject(robot, k)}}

\* Object3D.add re-parents: the link group ends up under the last joint
\* (declaration order) that names it as child; 0 if none
SceneParentJoint(robot, link) ==
    LET hits == {i \in DOMAIN robot.joints :
                    robot.joints[i].child = link /\ HasJointObject(robot, robot.joints[i])}
    IN  IF hits = {} THEN 0 ELSE CHOOSE i \in hits : \A k \in hits : i >= k

\* the joints on the scene path from the robot group down to the link's group;
\* found = FALSE when the link's group does not hang under the robot group
RECURSIVE ScenePath(_, _, _, _)
ScenePath(robot, link, path, fuel) ==
    IF link \notin LinkNames(robot) THEN [found |-> FALSE, path |-> path]
    ELSE IF link \in rootLinks(robot) THEN [found |-> TRUE, path |-> path]
    ELSE IF fuel = 0 \/ SceneParentJoint(robot, link) = 0 THEN [found |-> FALSE, path |-> path]
    ELSE LET j == robot.joints[SceneParentJoint(robot, link)]
         IN  ScenePath(robot, j.parent, <<j>> \o path, fuel - 1)

\* findObjectByName(robotModel, endEffectorName) finds the link's group
findObjectByName(robot, name) ==
    name # Null /\ ScenePath(robot, name, <<>>, Len(robot.joints)).found

\* local matrix of a joint object after the code has set it for `angle`:
\* position = origin.xyz, quaternion = euler(origin.rpy) * axisAngle(axis, angle)
\* (applyConfiguration, randomizePose, applyJointTransform, adjustJointAngle:
\* a rotation for every joint type)
JointObjectMatrix(jointData, angle) ==
    LET rot == makeRotationFromAxisAngle(Normalize(jointData.axis), angle)
    IN  IF jointData.origin.defined
        THEN Transform(MatMul(EulerXYZ(jointData.origin.rpy), rot), jointData.origin.xyz)
        ELSE Transform(rot, ZeroVec)

RECURSIVE SceneFold(_, _, _, _)
SceneFold(path, i, result, objectAngles) ==
    IF i > Len(path) THEN result
    ELSE SceneFold(path, i + 1,
                   multiply(result, JointObjectMatrix(path[i], objectAngles[path[i].name])),
                   objectAngles)

\* matrixWorld of the link's group: robot group position, then every joint
\* object on the path (link groups carry no transform of their own)
WorldMatrix(robot, link, rootOffset, objectAngles) ==
    SceneFold(ScenePath(robot, link, <<>>, Len(robot.joints)).path, 1,
              setPosition(IdentityTransform, rootOffset), objectAngles)

getWorldPosition(robot, link, rootOffset, objectAngles) ==
    WorldMatrix(robot, link, rootOffset, objectAngles).pos
getWorldQuaternion(robot, link, rootOffset, objectAngles) ==
    WorldMatrix(robot, link, rootOffset, objectAngles).rot

\* ----------------------------------------------------------- cost evaluator
\* floor(sqrt(n)) by bisection; lo * lo <= n < hi * hi
RECURSIVE SqrtSearch(_, _, _)
SqrtSearch(n, lo, hi) ==
    IF hi - lo <= 1 THEN lo
    ELSE LET mid == (lo + hi) \div 2
         IN  IF mid * mid <= n THEN SqrtSearch(n, mid, hi) ELSE SqrtSearch(n, lo, mid)

\* Vector3.distanceTo in thousandths: floor(1000 * sqrt(|a - b|^2))
distanceTo(a, b) == SqrtSearch(1000000 * Dot(VecSub(a, b), VecSub(a, b)), 0, 46340)

\* Math.acos(min(1, max(-1, 2 * dot^2 - 1))) in thousandths of a radian, where
\* dot = |q1 . q2|.  For the rotations r1, r2 the quaternions stand for,
\* 2 * dot^2 - 1 = (trace(r1^T r2) - 1) / 2.
rotationDistance(r1, r2) ==
    LET tr == Trace(MatMul(Transpose(r1), r2))
    IN  CASE tr >= 3 -> 0
          [] tr = 2  -> 1047
          [] tr = 1  -> 1570
          [] tr = 0  -> 2094
          [] OTHER   -> 3141

\* a target pose object (THREE.Object3D) or null
TargetPose(position, orientation) ==
    [defined |-> TRUE, position |-> position, orientation |-> orientation]
NullTarget == [defined |-> FALSE, position |-> ZeroVec, orientation |-> IdentityRot]

\* a cost without the early return for a missing target pose
calculatePositionCostNoNullCheck(target, endEffectorPos, endEffectorQuat) ==
    distanceTo(endEffectorPos, target.position)
    + rotationDistance(endEffectorQuat, target.orientation) \div 2

\* URDFIKSolver.calculatePositionCost(endEffectorPos); endEffectorQuat is the
\* world quaternion of the end-effector object, identity when it is not found
calculatePositionCost(target, endEffectorPos, endEffectorQuat) ==
    IF ~target.defined THEN Infinity
    ELSE distanceTo(endEffectorPos, target.position)
         + rotationDistance(endEffectorQuat, target.orientation) \div 2

\* ------------------------------------------------------------------ clamping
Max(a, b) == IF a >= b THEN a ELSE b
Min(a, b) == IF a <= b THEN a ELSE b

\* Math.max(lower, Math.min(upper, position))
Clamp(lower, upper, position) == Max(lower, Min(upper, position))

\* the value URDFReader.setJointPosition stores and returns for a movable joint
limitedPosition(joint, position) ==
    IF joint.limit.defined THEN Clamp(joint.limit.lower, joint.limit.upper, position)
    ELSE position

\* RobotKinematics.enforceJointLimits (and the same clamp inside
\* URDFIKSolver.randomizePose): reads jointData.limits
enforceJointLimits(jointData, angle) ==
    IF ~jointData.limits.defined THEN angle
    ELSE Clamp(jointData.limits.lower, jointData.limits.upper, angle)

\* ------------------------------------------------------------------- inputs
\* Robot models as URDFReader.parse returns them (links and joints in
\* declaration order).
ArmRobot ==
    [links  |-> <<Link("base", NoVisual), Link("link1", NoVisual), Link("link2", NoVisual)>>,
     joints |-> <<Joint("j1", "revolute", "base", "link1", NoOrigin,
                        Vec(0, 0, 1), NoLimit),
                  Joint("j2", "fixed", "link1", "link2", Origin(Vec(1, 0, 0), ZeroVec),
                        Vec(0, 0, 0), NoLimit)>>]
SliderRobot ==
    [links  |-> <<Link("base", NoVisual),
                  Link("link1", Visual(Origin(Vec(0, 1, 0), ZeroVec))),
                  Link("link2", NoVisual)>>,
     joints |-> <<Joint("j1", "prismatic", "base", "link1", Origin(ZeroVec, ZeroVec),
                        Vec(1, 0, 0), Limit(-2, 0)),
                  Joint("j2", "fixed", "link1", "link2", Origin(Vec(1, 0, 0), ZeroVec),
                        Vec(0, 0, 0), NoLimit)>>]
OffsetRobot ==
    [links  |-> <<Link("base", NoVisual), Link("link1", NoVisual), Link("link2", NoVisual)>>,
     joints |-> <<Joint("j1", "revolute", "base", "link1", Origin(Vec(0, 0, 1), ZeroVec),
                        Vec(0, 0, 1), Limit(1, 3)),
                  Joint("j2", "revolute", "link1", "link2", Origin(Vec(1, 0, 0), Vec(1, 0, 0)),
                        Vec(0, 2, 0), Limit(0, 0))>>]
InvertedRobot ==
    [links  |-> <<Link("base", NoVisual), Link("link2", NoVisual)>>,
     joints |-> <<Joint("j1", "revolute", "base", "link2", Origin(Vec(1, 0, 0), ZeroVec),
                        Vec(0, 1, 0), Limit(1, -1))>>]
WheelRobot ==
    [links  |-> <<Link("base", NoVisual), Link("link1", NoVisual), Link("link2", NoVisual)>>,
     joints |-> <<Joint("j1", "continuous", "base", "link1", Origin(Vec(0, 1, 0), ZeroVec),
                        Vec(0, 1, 0), NoLimit),
                  Joint("j2", "fixed", "link1", "link2", Origin(Vec(1, 0, 0), ZeroVec),
                        Vec(0, 0, 0), NoLimit)>>]
FixedRobot ==
    [links  |-> <<Link("base", NoVisual), Link("link2", NoVisual)>>,
     joints |-> <<Joint("j1", "fixed", "base", "link2", Origin(Vec(1, 0, 0), ZeroVec),
                        Vec(0, 0, 0), NoLimit)>>]
\* two revolute joints about different axes, each with an origin that turns
\* and shifts, each child link with a visual origin that turns and shifts
VisualRobot ==
    [links  |-> <<Link("base", NoVisual),
                  Link("link1", Visual(Origin(Vec(0, 1, 0), Vec(1, 0, 0)))),
                  Link("link2", Visual(Origin(Vec(0, 0, 1), Vec(0, 1, 0))))>>,
     joints |-> <<Joint("j1", "revolute", "base", "link1",
                        Origin(Vec(1, 0, 0), Vec(0, 0, 1)), Vec(0, 0, 1), NoLimit),
                  Joint("j2", "revolute", "link1", "link2",
                        Origin(Vec(1, 0, 0), ZeroVec), Vec(0, 1, 0), NoLimit)>>]
\* a revolute joint followed by a fixed joint whose element declares an axis
BracketRobot ==
    [links  |-> <<Link("base", NoVisual), Link("link1", NoVisual), Link("link2", NoVisual)>>,
     joints |-> <<Joint("j1", "revolute", "base", "link1", NoOrigin,
                        Vec(0, 0, 1), NoLimit),
                  Joint("j2", "fixed", "link1", "link2", Origin(Vec(1, 0, 0), ZeroVec),
                        Vec(0, 0, 1), NoLimit)>>]
Robots == {ArmRobot, SliderRobot, OffsetRobot, InvertedRobot, WheelRobot, FixedRobot}

RootOffsets == {Vec(0, 0, 1)}
Targets == {TargetPose(Vec(0, 1, 1), IdentityRot), TargetPose(Vec(1, 0, 1), RotZ(1))}
EndEffectors == {Null, "link2"}
PerturbationRanges == {1, 2}

\* -------------------------------------------------------------------- state
VARIABLES
    robot,            \* urdfReader.robot: links and joints
    rootOffset,       \* robotModel.position
    currentPosition,  \* joint name -> joint.currentPosition
    objectAngles,     \* joint name -> motion angle set on the joint's scene object
    solver,           \* the URDFIKSolver's fields
    kinematics,       \* the RobotKinematics instance's fields
    animator,         \* the JointAnimator's fields
    assignment,       \* a caller's Map of joint angles, passed to calculateFK
    result            \* the last call: its name, arguments and return value

vars == <<robot, rootOffset, currentPosition, objectAngles, solver, kinematics, animator,
          assignment, result>>

\* A call record.  joint / arg: the joint name and number passed in; isNull:
\* the call returned null; improved / distance: randomizePose's report;
\* value: a returned number; pose: a returned pose.
Return(op, joint, arg, isNull, improved, distance, value, pose) ==
    [op |-> op, joint |-> joint, arg |-> arg, isNull |-> isNull, improved |-> improved,
     distance |-> distance, value |-> value, pose |-> pose,
     angles |-> EmptyMap, args |-> <<>>]
\* a call that returns nothing
Void == Return("void", Null, 0, TRUE, FALSE, 0, 0, NullPose)
PoseReturn(op, pose) == Return(op, Null, 0, pose.isNull, FALSE, 0, 0, pose)
SearchReturn(isNull, improved, distance) ==
    Return("randomizePose", Null, 0, isNull, improved, distance, 0, NullPose)

\* URDFIKSolver.constructor
NewSolver ==
    [endEffectorName |-> Null, jointObjectsSet |-> FALSE, bestDistance |-> Infinity,
     bestJointAngles |-> EmptyMap, currentJointAngles |-> EmptyMap,
     perturbationRange |-> 1, targetPose |-> NullTarget]

\* RobotKinematics.constructor(robotData, endEffectorName)
NewKinematics(rob, endEffectorName) ==
    [endEffectorName |-> endEffectorName,
     jointChain |-> computeJointChain(rob, endEffectorName),
     currentLink |-> Null, status |-> "returned", passes |-> 0]

\* JointAnimator.constructor(logger, urdfReader)
NewAnimator(hasValidReader) ==
    [hasValidReader |-> hasValidReader, isAnimating |-> FALSE, currentJointIndex |-> 0,
     animationTime |-> 0, joints |-> {}, jointAngles |-> EmptyMap]

\* JointAnimator.setJoints(jointObjects, jointData): one angle per joint
\* object, read from the reader when there is one
setJoints(anim, rob, positions) ==
    [anim EXCEPT !.joints = JointObjectNames(rob),
                 !.jointAngles = [n \in JointObjectNames(rob) |->
                                    IF anim.hasValidReader THEN positions[n] ELSE 0]]

\* the state once a model is parsed and shown: every joint at currentPosition
\* 0 (parseJoint), every joint object at its origin (visualizeRobot)
Loaded(rob) ==
    /\ robot = rob
    /\ currentPosition = [n \in JointNames(rob) |-> 0]
    /\ objectAngles = [n \in JointObjectNames(rob) |-> 0]
    /\ solver = NewSolver
    /\ kinematics = NewKinematics(rob, Null)
    /\ assignment = EmptyMap
    /\ result = Void

Init ==
    /\ \E rob \in Robots : Loaded(rob)
    /\ rootOffset \in RootOffsets
    /\ animator = setJoints(NewAnimator(TRUE), robot, currentPosition)

\* ------------------------------------------------------------- solver setup
setJointObjects ==
    /\ solver' = [solver EXCEPT !.jointObjectsSet = TRUE]
    /\ result' = Void
    /\ UNCHANGED <<robot, rootOffset, currentPosition, objectAngles, kinematics, animator, assignment>>

setEndEffector(endEffectorName) ==
    /\ solver' = [solver EXCEPT !.endEffectorName = endEffectorName]
    /\ result' = Void
    /\ UNCHANGED <<robot, rootOffset, currentPosition, objectAngles, kinematics, animator, assignment>>

setTargetPose(targetPose) ==
    /\ solver' = [solver EXCEPT !.targetPose = targetPose]
    /\ result' = Void
    /\ UNCHANGED <<robot, rootOffset, currentPosition, objectAngles, kinematics, animator, assignment>>

setPerturbationRange(degrees) ==
    /\ solver' = [solver EXCEPT !.perturbationRange = degrees]
    /\ result' = Void
    /\ UNCHANGED <<robot, rootOffset, currentPosition, objectAngles, kinematics, animator, assignment>>

reset ==
    /\ solver' = [solver EXCEPT !.bestDistance = Infinity,
                                !.bestJointAngles = EmptyMap,
                                !.currentJointAngles = EmptyMap]
    /\ result' = Void
    /\ UNCHANGED <<robot, rootOffset, currentPosition, objectAngles, kinematics, animator, assignment>>

\* a setJointPosition without the test for fixed joints
setJointPositionMovingFixed(rob, positions, jointName, position) ==
    IF jointName \notin JointNames(rob) THEN positions
    ELSE [positions EXCEPT ![jointName] = limitedPosition(GetJoint(rob, jointName), position)]

\* -------------------------------------------------------------- joint store
\* URDFReader.setJointPosition(jointName, position): the positions afterwards
setJointPosition(rob, positions, jointName, position) ==
    IF jointName \notin JointNames(rob) THEN positions
    ELSE IF GetJoint(rob, jointName).type = "fixed" THEN positions
    ELSE [positions EXCEPT ![jointName] = limitedPosition(GetJoint(rob, jointName), position)]

\* what URDFReader.setJointPosition returns; isNull for an unknown joint
setJointPositionReturn(rob, positions, jointName, position) ==
    IF jointName \notin JointNames(rob) THEN [isNull |-> TRUE, value |-> 0]
    ELSE [isNull |-> FALSE, value |-> setJointPosition(rob, positions, jointName, position)[jointName]]

\* the snapshot loops of randomizePose: every revolute / prismatic joint with
\* urdfReader.getJointPosition(jointName)
SnapshotAngles(rob, positions) == [n \in SearchJoints(rob) |-> positions[n]]

\* URDFIKSolver.applyConfiguration(jointAngles): setJointPosition for every
\* entry, and the entry's angle set on the joint object when there is one
applyConfigurationPositions(rob, positions, jointAngles) ==
    [n \in DOMAIN positions |->
        IF Has(jointAngles, n)
        THEN setJointPosition(rob, positions, n, jointAngles[n])[n]
        ELSE positions[n]]
applyConfigurationObjects(objects, jointAngles) ==
    [n \in DOMAIN objects |-> IF Has(jointAngles, n) THEN jointAngles[n] ELSE objects[n]]

\* ------------------------------------------------------------- search step
\* newAngle of randomizePose for one joint: previous + perturbation, clamped
\* to jointData.limits if that field is set
CandidateAngles(rob, previousAngles, perturbation) ==
    [n \in SearchJoints(rob) |->
        enforceJointLimits(GetJoint(rob, n), previousAngles[n] + perturbation[n])]

\* an acceptance test that takes any candidate whose cost differs from the best
IsBetterAnyChange(distance, bestDistance) == distance # bestDistance

\* an acceptance test that also takes a candidate of equal cost
IsBetterOrEqual(distance, bestDistance) == distance <= bestDistance

\* the acceptance test of randomizePose
IsBetter(distance, bestDistance) == distance < bestDistance

\* URDFIKSolver.randomizePose with the random draws `perturbation`
\* (joint name -> randomFloat * perturbationRadians)
randomizePose(perturbation) ==
    IF ~solver.jointObjectsSet
    THEN /\ result' = SearchReturn(TRUE, FALSE, 0)
         /\ UNCHANGED <<robot, rootOffset, currentPosition, objectAngles, solver, kinematics, animator, assignment>>
    ELSE
    LET previousAngles == SnapshotAngles(robot, currentPosition)
        newAngles == CandidateAngles(robot, previousAngles, perturbation)
        triedPositions == applyConfigurationPositions(robot, currentPosition, newAngles)
        triedObjects == applyConfigurationObjects(objectAngles, newAngles)
        endEffector == solver.endEffectorName
    IN  /\ \A n \in SearchJoints(robot) : Abs(newAngles[n]) <= MaxAngle
        /\ UNCHANGED <<robot, rootOffset, kinematics, animator, assignment>>
        /\ IF endEffector # Null /\ findObjectByName(robot, endEffector)
           THEN LET viewerWorldPos == getWorldPosition(robot, endEffector, rootOffset, triedObjects)
                    endEffectorQuat == getWorldQuaternion(robot, endEffector, rootOffset, triedObjects)
                    fkResult == calculateFK(robot, endEffector, rootOffset,
                                            SnapshotAngles(robot, triedPositions))
                    distance == calculatePositionCost(solver.targetPose, viewerWorldPos, endEffectorQuat)
                IN  IF IsBetter(distance, solver.bestDistance)
                    THEN /\ solver' = [solver EXCEPT
                                          !.bestDistance = distance,
                                          !.bestJointAngles = SnapshotAngles(robot, triedPositions)]
                         /\ currentPosition' = triedPositions
                         /\ objectAngles' = triedObjects
                         /\ result' = SearchReturn(FALSE, TRUE, distance)
                    ELSE /\ currentPosition' =
                               applyConfigurationPositions(robot, triedPositions, previousAngles)
                         /\ objectAngles' = applyConfigurationObjects(triedObjects, previousAngles)
                         /\ result' = SearchReturn(FALSE, FALSE, distance)
                         /\ UNCHANGED solver
           ELSE /\ currentPosition' = triedPositions
                /\ objectAngles' = triedObjects
                /\ result' = SearchReturn(FALSE, FALSE, Infinity)
                /\ UNCHANGED solver

\* URDFIKSolver.applyBestSolution
applyBestSolution ==
    /\ currentPosition' =
          applyConfigurationPositions(robot, currentPosition, solver.bestJointAngles)
    /\ objectAngles' = applyConfigurationObjects(objectAngles, solver.bestJointAngles)
    /\ result' = Void
    /\ UNCHANGED <<robot, rootOffset, solver, kinematics, animator, assignment>>

Perturbations ==
    [SearchJoints(robot) -> (0 - solver.perturbationRange) .. solver.perturbationRange]

Next ==
    \/ setJointObjects
    \/ \E e \in EndEffectors : setEndEffector(e)
    \/ \E t \in Targets \cup {NullTarget} : setTargetPose(t)
    \/ \E d \in PerturbationRanges : setPerturbationRange(d)
    \/ reset
    \/ \E p \in Perturbations : randomizePose(p)
    \/ applyBestSolution

Spec == Init /\ [][Next]_vars

\* ------------------------------------------------------- FK as a query
\* Topologies: every list of up to MaxTopologyJoints joints over four links
\* for which chain building returns (a walk that never ends builds no chain).
MaxTopologyJoints == 2
TopologyLinks == {"a", "b", "c", "d"}
TopologyJoint(i, parent, child) ==
    Joint(CASE i = 1 -> "j1" [] i = 2 -> "j2" [] i = 3 -> "j3" [] OTHER -> "j4",
          "revolute", parent, child, NoOrigin, Vec(0, 0, 1), NoLimit)
TopologyPairs == {pc \in TopologyLinks \X TopologyLinks : pc[1] # pc[2]}
TopologyRobot(pairs) ==
    [links  |-> <<Link("a", NoVisual), Link("b", NoVisual), Link("c", NoVisual),
                  Link("d", NoVisual)>>,
     joints |-> [i \in DOMAIN pairs |-> TopologyJoint(i, pairs[i][1], pairs[i][2])]]
WalkReturns(rob) ==
    \A l \in LinkNames(rob) :
        ChainWalk(rob.joints, l, <<>>, Len(rob.joints) + 1).terminated
TopologyRobots ==
    {rob \in {TopologyRobot(pairs) :
                 pairs \in UNION {[1..n -> TopologyPairs] : n \in 1..MaxTopologyJoints}} :
        WalkReturns(rob)}

\* new RobotKinematics(robotData, endEffectorName)
newRobotKinematics(endEffectorName) ==
    /\ kinematics' = NewKinematics(robot, endEffectorName)
    /\ result' = Void
    /\ UNCHANGED <<robot, rootOffset, currentPosition, objectAngles, solver, animator, assignment>>

InitChain ==
    /\ \E rob \in TopologyRobots : Loaded(rob)
    /\ rootOffset = ZeroVec
    /\ animator = setJoints(NewAnimator(TRUE), robot, currentPosition)

NextChain == \E e \in TopologyLinks \cup {Null, "ghost"} : newRobotKinematics(e)

SpecChain == InitChain /\ [][NextChain]_vars

\* the caller builds a Map of joint angles
AngleValues == {-1, 0, 1, 2}
Assignments(rob) == UNION {[keys -> AngleValues] : keys \in SUBSET JointNames(rob)}
chooseAssignment(jointAngles) ==
    /\ assignment' = jointAngles
    /\ result' = Void
    /\ UNCHANGED <<robot, rootOffset, currentPosition, objectAngles, solver, kinematics, animator>>

solverCalculateFKApplying ==
    /\ result' = PoseReturn("calculateFK",
                            calculateFK(robot, solver.endEffectorName, rootOffset, assignment))
    /\ currentPosition' = applyConfigurationPositions(robot, currentPosition, assignment)
    /\ UNCHANGED <<robot, rootOffset, objectAngles, solver, kinematics, animator, assignment>>

\* URDFIKSolver.calculateFK(assignment) called as a query
solverCalculateFK ==
    /\ result' = PoseReturn("calculateFK",
                            calculateFK(robot, solver.endEffectorName, rootOffset, assignment))
    /\ UNCHANGED <<robot, rootOffset, currentPosition, objectAngles, solver, kinematics,
                   animator, assignment>>

\* RobotKinematics.calculateFK(assignment, rootOffset), with or without offset
RootOffsetArg(given) == [defined |-> given, xyz |-> rootOffset]
kinematicsCalculateFK(withOffset) ==
    /\ result' = [PoseReturn("RobotKinematics.calculateFK",
                             KinematicsCalculateFK(robot, kinematics.endEffectorName,
                                                   assignment, RootOffsetArg(withOffset)))
                  EXCEPT !.arg = IF withOffset THEN 1 ELSE 0]
    /\ UNCHANGED <<robot, rootOffset, currentPosition, objectAngles, solver, kinematics,
                   animator, assignment>>

FKEndEffectors == {Null, "base", "link2"}

FKRobots == Robots \cup {VisualRobot, BracketRobot}

InitFK ==
    /\ \E rob \in FKRobots : Loaded(rob)
    /\ rootOffset \in {ZeroVec, Vec(0, 0, 1)}
    /\ animator = setJoints(NewAnimator(TRUE), robot, currentPosition)

NextFK ==
    \/ \E e \in FKEndEffectors : setEndEffector(e)
    \/ \E e \in FKEndEffectors : newRobotKinematics(e)
    \/ \E a \in Assignments(robot) : chooseAssignment(a)
    \/ solverCalculateFK
    \/ \E withOffset \in BOOLEAN : kinematicsCalculateFK(withOffset)

SpecFK == InitFK /\ [][NextFK]_vars

\* ------------------------------------------------------ direct set and jog
MaxLimit == 2
LimitValues == (0 - MaxLimit)..MaxLimit
RequestValues == (0 - MaxLimit - 1)..(MaxLimit + 1)

\* URDFReader.getJointPosition; isNull for an unknown joint
getJointPosition(rob, positions, jointName) ==
    IF jointName \in JointNames(rob) THEN [isNull |-> FALSE, value |-> positions[jointName]]
    ELSE [isNull |-> TRUE, value |-> 0]

\* JointAnimator.getJointAngle
getJointAngle(anim, rob, positions, jointName) ==
    IF anim.hasValidReader /\ ~getJointPosition(rob, positions, jointName).isNull
    THEN getJointPosition(rob, positions, jointName).value
    ELSE IF Has(anim.jointAngles, jointName) THEN anim.jointAngles[jointName] ELSE 0

\* (limit.upper + limit.lower) / 2; the models keep this sum even
Midpoint(limit) == (limit.upper + limit.lower) \div 2

\* URDFReader.resetJointPositions
resetJointPositions(rob, positions) ==
    [n \in DOMAIN positions |->
        LET joint == GetJoint(rob, n)
        IN  IF joint.type = "fixed" THEN positions[n]
            ELSE IF joint.limit.defined THEN Midpoint(joint.limit) ELSE 0]

\* resetPosition of JointAnimator.resetJoint: jointData.limit, else the limits
\* the reader (or jointData again) reports, else 0
resetPosition(jointData) == IF jointData.limit.defined THEN Midpoint(jointData.limit) ELSE 0

\* JointAnimator._safeSetJointPosition: the reader's positions afterwards
safeSetJointPosition(anim, rob, positions, jointName, position) ==
    IF anim.hasValidReader THEN setJointPosition(rob, positions, jointName, position)
    ELSE positions
\* ... and its return value
safeSetJointPositionReturn(anim, rob, positions, jointName, position) ==
    IF anim.hasValidReader /\ ~setJointPositionReturn(rob, positions, jointName, position).isNull
    THEN setJointPositionReturn(rob, positions, jointName, position).value
    ELSE position

\* JointAnimator.resetJointAngles: resetJoint for every entry of jointAngles,
\* then urdfReader.resetJointPositions() when there is a reader
resetJointAngles(st, rob) ==
    LET names == DOMAIN st.animator.jointAngles
        afterJoints ==
            [n \in DOMAIN st.currentPosition |->
                IF n \in names
                THEN safeSetJointPosition(st.animator, rob, st.currentPosition, n,
                                          resetPosition(GetJoint(rob, n)))[n]
                ELSE st.currentPosition[n]]
    IN  [animator |-> [st.animator EXCEPT
                          !.jointAngles = [n \in names |-> resetPosition(GetJoint(rob, n))]],
         currentPosition |-> IF st.animator.hasValidReader
                             THEN resetJointPositions(rob, afterJoints)
                             ELSE afterJoints,
         objectAngles |-> [n \in DOMAIN st.objectAngles |->
                              IF n \in names THEN resetPosition(GetJoint(rob, n))
                              ELSE st.objectAngles[n]]]

\* JointAnimator.stopAnimation as a function of the state it changes
stopAnimationState(st, rob) ==
    resetJointAngles([st EXCEPT !.animator.isAnimating = FALSE], rob)

Current == [animator |-> animator, currentPosition |-> currentPosition,
            objectAngles |-> objectAngles]

\* jointAnimator.setJoints(jointObjects, urdfReader.robot.joints)
animatorSetJoints ==
    /\ animator' = setJoints(animator, robot, currentPosition)
    /\ result' = Void
    /\ UNCHANGED <<robot, rootOffset, currentPosition, objectAngles, solver, kinematics, assignment>>

\* JointAnimator.startAnimation(callback)
startAnimation ==
    LET animatable == {n \in animator.joints : GetJoint(robot, n).type # "fixed"}
    IN  /\ animator' = IF animatable = {} THEN animator
                       ELSE [animator EXCEPT !.isAnimating = TRUE, !.currentJointIndex = 0,
                                             !.animationTime = 0]
        /\ result' = Void
        /\ UNCHANGED <<robot, rootOffset, currentPosition, objectAngles, solver, kinematics,
                       assignment>>

\* JointAnimator.stopAnimation()
stopAnimation ==
    LET st == stopAnimationState(Current, robot)
    IN  /\ animator' = st.animator
        /\ currentPosition' = st.currentPosition
        /\ objectAngles' = st.objectAngles
        /\ result' = Void
        /\ UNCHANGED <<robot, rootOffset, solver, kinematics, assignment>>

MapSet(map, key, value) ==
    [n \in DOMAIN map \cup {key} |-> IF n = key THEN value ELSE map[n]]

\* urdfReader.setJointPosition(jointName, position) called directly
setJointPositionCall(jointName, position) ==
    LET ret == setJointPositionReturn(robot, currentPosition, jointName, position)
    IN  /\ currentPosition' = setJointPosition(robot, currentPosition, jointName, position)
        /\ result' = Return("setJointPosition", jointName, position, ret.isNull, FALSE, 0,
                            ret.value, NullPose)
        /\ UNCHANGED <<robot, rootOffset, objectAngles, solver, kinematics, animator,
                       assignment>>

\* RobotKinematics.enforceJointLimits(jointName, angle) on the parsed model
kinematicsEnforceJointLimits(jointName, angle) ==
    /\ result' = Return("enforceJointLimits", jointName, angle, FALSE, FALSE, 0,
                        IF jointName \in JointNames(robot)
                        THEN enforceJointLimits(GetJoint(robot, jointName), angle)
                        ELSE angle,
                        NullPose)
    /\ UNCHANGED <<robot, rootOffset, currentPosition, objectAngles, solver, kinematics,
                   animator, assignment>>

\* RobotKinematics.randomizePose(currentAngles, perturbationRange); the
\* perturbation of each joint is randomFloat * perturbationRange
kinematicsRandomizePose(currentAngles, perturbation) ==
    /\ result' = [Return("RobotKinematics.randomizePose", Null, 0, FALSE, FALSE, 0, 0, NullPose)
                  EXCEPT !.angles =
                      [n \in SearchJoints(robot) |->
                          enforceJointLimits(GetJoint(robot, n),
                              (IF Has(currentAngles, n) THEN currentAngles[n] ELSE 0)
                              + perturbation[n])],
                         !.args = <<currentAngles>>]
    /\ UNCHANGED <<robot, rootOffset, currentPosition, objectAngles, solver, kinematics,
                   animator, assignment>>

\* JointAnimator.adjustJointAngle(jointName, deltaAngle)
adjustJointAngle(jointName, deltaAngle) ==
    IF jointName = Null \/ jointName \notin animator.joints
    THEN /\ result' = Return("adjustJointAngle", jointName, deltaAngle, TRUE, FALSE, 0, 0,
                             NullPose)
         /\ UNCHANGED <<robot, rootOffset, currentPosition, objectAngles, solver, kinematics,
                        animator, assignment>>
    ELSE LET st == IF animator.isAnimating THEN stopAnimationState(Current, robot)
                   ELSE Current
             jointData == GetJoint(robot, jointName)
             currentAngle == IF Has(st.animator.jointAngles, jointName)
                             THEN st.animator.jointAngles[jointName] ELSE 0
             requested == currentAngle + deltaAngle
             newAngle == IF jointData.limit.defined
                         THEN Max(jointData.limit.lower, Min(jointData.limit.upper, requested))
                         ELSE safeSetJointPositionReturn(st.animator, robot, st.currentPosition,
                                                         jointName, requested)
         IN  IF jointData.type = "fixed"
             THEN /\ animator' = st.animator
                  /\ currentPosition' = st.currentPosition
                  /\ objectAngles' = st.objectAngles
                  /\ result' = Return("adjustJointAngle", jointName, deltaAngle, TRUE, FALSE,
                                      0, 0, NullPose)
                  /\ UNCHANGED <<robot, rootOffset, solver, kinematics, assignment>>
             ELSE /\ Abs(requested) <= MaxAngle + 1
                  /\ animator' = [st.animator EXCEPT
                                     !.jointAngles = MapSet(@, jointName, newAngle)]
                  /\ currentPosition' =
                         IF jointData.limit.defined THEN st.currentPosition
                         ELSE safeSetJointPosition(st.animator, robot, st.currentPosition,
                                                   jointName, requested)
                  /\ objectAngles' = [st.objectAngles EXCEPT ![jointName] = newAngle]
                  /\ result' = Return("adjustJointAngle", jointName, deltaAngle, FALSE, FALSE,
                                      0, newAngle, NullPose)
                  /\ UNCHANGED <<robot, rootOffset, solver, kinematics, assignment>>

\* one movable joint as parseJoint builds it, with or without a <limit>
ClampRobot(type, limit) ==
    [links  |-> <<Link("base", NoVisual), Link("link1", NoVisual)>>,
     joints |-> <<Joint("j1", type, "base", "link1", NoOrigin, Vec(0, 0, 1), limit)>>]
ClampRobots ==
    {ClampRobot(type, limit) :
        type \in {"revolute", "prismatic", "continuous"},
        limit \in {NoLimit} \cup {Limit(lo, hi) : lo \in LimitValues, hi \in LimitValues}}

InitClamp ==
    /\ \E rob \in ClampRobots : Loaded(rob)
    /\ rootOffset \in RootOffsets
    /\ animator = setJoints(NewAnimator(TRUE), robot, currentPosition)

NextClamp ==
    \/ \E n \in JointNames(robot) \cup {"ghost"}, a \in RequestValues :
          setJointPositionCall(n, a)
    \/ \E n \in JointNames(robot) \cup {"ghost"}, a \in RequestValues :
          kinematicsEnforceJointLimits(n, a)
    \/ \E currentAngles \in Assignments(robot), range \in PerturbationRanges :
          \E perturbation \in [SearchJoints(robot) -> (0 - range)..range] :
              kinematicsRandomizePose(currentAngles, perturbation)

SpecClamp == InitClamp /\ [][NextClamp]_vars

JogDeltas == {-1, 1}
JogPositions == {0 - MaxAngle - 1, 1, MaxAngle}

InitJog ==
    /\ \E rob \in Robots : Loaded(rob)
    /\ rootOffset \in RootOffsets
    /\ \E hasValidReader \in BOOLEAN :
          animator = setJoints(NewAnimator(hasValidReader), robot, currentPosition)

NextJog ==
    \/ \E n \in JointNames(robot) \cup {Null, "ghost"}, d \in JogDeltas :
          adjustJointAngle(n, d)
    \/ \E n \in JointNames(robot) \cup {"ghost"}, a \in JogPositions :
          setJointPositionCall(n, a)
    \/ animatorSetJoints
    \/ startAnimation
    \/ stopAnimation

SpecJog == InitJog /\ [][NextJog]_vars

\* ------------------------------------------------------ the animation loop
\* animationDuration (3.0 s), in units of 1.5 s; update is called with a
\* deltaTime of one unit, so progress is 1/2 or 1 when a joint is animated
animationDuration == 2
DeltaTimes == {1}

\* the keys of jointObjects whose jointData is not fixed, in Map order
AnimatableJoints(anim, rob) ==
    LET names == [i \in DOMAIN rob.joints |-> rob.joints[i].name]
        Animatable(n) == n \in anim.joints /\ GetJoint(rob, n).type # "fixed"
    IN  SelectSeq(names, Animatable)

\* the angle animateJoint computes at animationTime `time`: the midpoint of
\* the limit pair plus a multiple of the amplitude that is 0 at progress 0,
\* 1/2 and 1, then clamped to the pair; without limits the pair is
\* [-pi/4, pi/4], midpoint 0
animateJointAngle(jointData, time) ==
    IF jointData.limit.defined
    THEN Max(jointData.limit.lower, Min(jointData.limit.upper, Midpoint(jointData.limit)))
    ELSE 0

\* JointAnimator.animateJoint(jointName, jointObject, jointData)
animateJoint(st, rob, jointName) ==
    LET angle == animateJointAngle(GetJoint(rob, jointName), st.animator.animationTime)
    IN  [animator |-> [st.animator EXCEPT !.jointAngles = MapSet(@, jointName, angle)],
         currentPosition |-> safeSetJointPosition(st.animator, rob, st.currentPosition,
                                                  jointName, angle),
         objectAngles |-> [st.objectAngles EXCEPT ![jointName] = angle]]

\* JointAnimator.resetJoint(jointName, jointObject, jointData)
resetJoint(st, rob, jointName) ==
    LET position == resetPosition(GetJoint(rob, jointName))
    IN  [animator |-> [st.animator EXCEPT !.jointAngles = MapSet(@, jointName, position)],
         currentPosition |-> safeSetJointPosition(st.animator, rob, st.currentPosition,
                                                  jointName, position),
         objectAngles |-> [st.objectAngles EXCEPT ![jointName] = position]]

\* JointAnimator.update(deltaTime); result.joint is the currentJoint reported,
\* Null when animatableJoints[currentJointIndex] is undefined
update(deltaTime) ==
    IF ~animator.isAnimating
    THEN /\ result' = Return("update", Null, deltaTime, TRUE, FALSE, 0, 0, NullPose)
         /\ UNCHANGED <<robot, rootOffset, currentPosition, objectAngles, solver, kinematics,
                        animator, assignment>>
    ELSE
    LET timed == [Current EXCEPT !.animator.animationTime = @ + deltaTime]
        animatableJoints == AnimatableJoints(animator, robot)
        index == animator.currentJointIndex
        found == index < Len(animatableJoints)
        currentJoint == IF found THEN animatableJoints[index + 1] ELSE Null
        animated == IF found THEN animateJoint(timed, robot, currentJoint) ELSE timed
        passed == IF found THEN resetJoint(animated, robot, currentJoint) ELSE animated
        st == IF Len(animatableJoints) = 0 THEN stopAnimationState(timed, robot)
              ELSE IF timed.animator.animationTime >= animationDuration
              THEN [passed EXCEPT !.animator.animationTime = 0,
                                  !.animator.currentJointIndex =
                                      IF index + 1 >= Len(animatableJoints) THEN 0
                                      ELSE index + 1]
              ELSE animated
    IN  /\ animator' = st.animator
        /\ currentPosition' = st.currentPosition
        /\ objectAngles' = st.objectAngles
        /\ result' = Return("update", currentJoint, deltaTime, Len(animatableJoints) = 0,
                            FALSE, 0, 0, NullPose)
        /\ UNCHANGED <<robot, rootOffset, solver, kinematics, assignment>>

\* URDFVisualizer.loadSelectedModel followed by visualizeRobot: the reader
\* parses the new model, the scene is rebuilt and the animator is given the
\* new joints
loadSelectedModel(rob) ==
    /\ robot' = rob
    /\ currentPosition' = [n \in JointNames(rob) |-> 0]
    /\ objectAngles' = [n \in JointObjectNames(rob) |-> 0]
    /\ animator' = setJoints(animator, rob, [n \in JointNames(rob) |-> 0])
    /\ result' = Void
    /\ UNCHANGED <<rootOffset, solver, kinematics, assignment>>

InitAnimate ==
    /\ \E rob \in Robots : Loaded(rob)
    /\ rootOffset \in RootOffsets
    /\ \E hasValidReader \in BOOLEAN :
          animator = setJoints(NewAnimator(hasValidReader), robot, currentPosition)

NextAnimate ==
    \/ startAnimation
    \/ \E deltaTime \in DeltaTimes : update(deltaTime)
    \/ \E rob \in Robots : loadSelectedModel(rob)
    \/ stopAnimation

SpecAnimate == InitAnimate /\ [][NextAnimate]_vars

\* ------------------------------------------------- chain building, by steps
\* computeJointChain one loop iteration at a time, for models on which the
\* walk may never return: every list of joints over the four links, a joint
\* from a link to itself included.
WalkPairs == TopologyLinks \X TopologyLinks
WalkRobots ==
    {TopologyRobot(pairs) :
        pairs \in UNION {[1..n -> WalkPairs] : n \in 1..MaxTopologyJoints}}

\* new RobotKinematics(...) up to the first test of while (currentLink)
beginComputeJointChain(endEffectorName) ==
    /\ kinematics.status = "returned"
    /\ kinematics' = [endEffectorName |-> endEffectorName, jointChain |-> <<>>,
                      currentLink |-> endEffectorName, status |-> "walking", passes |-> 0]
    /\ result' = Void
    /\ UNCHANGED <<robot, rootOffset, currentPosition, objectAngles, solver, animator, assignment>>

\* one test of while (currentLink) and one pass through the loop body.  A
\* chain longer than the joint list is built only by a walk that has come
\* back to a joint it took before; its further entries are not recorded.
\* passes is the number of passes through the loop body, modulo 2.
walkStep ==
    /\ kinematics.status = "walking"
    /\ LET i == FirstJointWithChild(robot.joints, kinematics.currentLink)
           entry == [joint |-> robot.joints[i], childLink |-> kinematics.currentLink,
                     parentLink |-> robot.joints[i].parent]
       IN  kinematics' =
             IF kinematics.currentLink = Null \/ i = 0
             THEN [kinematics EXCEPT !.status = "returned"]
             ELSE [kinematics EXCEPT
                     !.jointChain = IF Len(@) <= Len(robot.joints) THEN <<entry>> \o @ ELSE @,
                     !.currentLink = robot.joints[i].parent,
                     !.passes = (@ + 1) % 2,
                     !.status = IF robot.joints[i].parent = Null THEN "returned"
                                ELSE "walking"]
    /\ result' = Void
    /\ UNCHANGED <<robot, rootOffset, currentPosition, objectAngles, solver, animator, assignment>>

InitWalk ==
    /\ \E rob \in WalkRobots : Loaded(rob)
    /\ rootOffset \in RootOffsets
    /\ animator = NewAnimator(TRUE)

NextWalk ==
    \/ \E e \in TopologyLinks \cup {Null, "ghost"} : beginComputeJointChain(e)
    \/ walkStep

\* the loop runs on once entered: nothing else is scheduled in between
SpecWalk == InitWalk /\ [][NextWalk]_vars /\ WF_vars(walkStep)

\* ------------------------------------------------------------------ parsing
\* A URDF document as parse reads it: <link> and <joint> elements in document
\* order; an attribute that is missing or empty is Null.
MaxDocumentJoints == 1
LinkElement(name) == [name |-> name]
\* a <joint> element: its attributes, its <parent> and <child> links and the
\* xyz attribute of its <axis> element (Null when absent)
JointElement(name, type, parent, child, axis) ==
    [name |-> name, type |-> type, parent |-> parent, child |-> child, axis |-> axis]

\* URDFReader.parseXYZ: [0, 0, 0] for a missing string
parseXYZ(xyzString) == IF xyzString = Null THEN <<0, 0, 0>> ELSE xyzString
EmptyRobot == [links |-> <<>>, joints |-> <<>>]

\* Map.set(item.name, item): replaces the value of an existing key in place
MapPut(seq, item) ==
    IF \E i \in DOMAIN seq : seq[i].name = item.name
    THEN [i \in DOMAIN seq |-> IF seq[i].name = item.name THEN item ELSE seq[i]]
    ELSE Append(seq, item)

\* URDFReader.parseLink: a link without a name is skipped
parseLink(links, linkElement) ==
    IF linkElement.name = Null THEN links
    ELSE MapPut(links, Link(linkElement.name, NoVisual))

\* a parseJoint that does not look at the <child> element
parseJointWithoutChildCheck(joints, jointElement) ==
    IF \/ jointElement.name = Null \/ jointElement.type = Null
       \/ jointElement.parent = Null
    THEN joints
    ELSE MapPut(joints, Joint(jointElement.name, jointElement.type, jointElement.parent,
                              jointElement.child, NoOrigin, parseXYZ(jointElement.axis), NoLimit))

\* URDFReader.parseJoint: a joint without name, type, parent or child is
\* skipped; no <origin>, <limit> in these documents
parseJoint(joints, jointElement) ==
    IF \/ jointElement.name = Null \/ jointElement.type = Null
       \/ jointElement.parent = Null \/ jointElement.child = Null
    THEN joints
    ELSE MapPut(joints, Joint(jointElement.name, jointElement.type, jointElement.parent,
                              jointElement.child, NoOrigin, parseXYZ(jointElement.axis), NoLimit))

RECURSIVE parseLinks(_, _, _)
parseLinks(elements, i, links) ==
    IF i > Len(elements) THEN links
    ELSE parseLinks(elements, i + 1, parseLink(links, elements[i]))
RECURSIVE parseJoints(_, _, _)
parseJoints(elements, i, joints) ==
    IF i > Len(elements) THEN joints
    ELSE parseJoints(elements, i + 1, parseJoint(joints, elements[i]))

\* URDFReader.parse: links first, then joints (rootLinks is computed from them)
parse(document) ==
    [links  |-> parseLinks(document.links, 1, <<>>),
     joints |-> parseJoints(document.joints, 1, <<>>)]

DocumentLinkNames == {"a", "b", "x", Null}
JointElements ==
    {JointElement(name, type, parent, child, axis) :
        name \in {"j1", Null}, type \in {"revolute", "fixed", Null},
        parent \in DocumentLinkNames, child \in DocumentLinkNames,
        axis \in {Null, <<0, 1, 0>>}}
DocumentLinks ==
    {<<LinkElement("a"), LinkElement("b")>>, <<LinkElement("a")>>,
     <<LinkElement("a"), LinkElement(Null), LinkElement("b")>>}
Documents ==
    {[links |-> links, joints |-> joints] :
        links \in DocumentLinks,
        joints \in UNION {[1..n -> JointElements] : n \in 1..MaxDocumentJoints}}

\* urdfReader.parse(urdfText)
parseDocument(document) ==
    /\ robot' = parse(document)
    /\ currentPosition' = [n \in JointNames(parse(document)) |-> 0]
    /\ result' = [Return("parse", Null, 0, FALSE, FALSE, 0, 0, NullPose)
                  EXCEPT !.args = <<document>>]
    /\ UNCHANGED <<rootOffset, objectAngles, solver, kinematics, animator, assignment>>

InitParse ==
    /\ Loaded(EmptyRobot)
    /\ rootOffset \in RootOffsets
    /\ animator = NewAnimator(TRUE)

NextParse == \E document \in Documents : parseDocument(document)

SpecParse == InitParse /\ [][NextParse]_vars

\* ---- a new reader parsing one document with several <joint> elements
MaxModelJoints == 2
ModelJointElements ==
    {JointElement(name, type, parent, child, Null) :
        name \in {"j1", "j2", Null}, type \in {"revolute", Null},
        parent \in {"a", Null}, child \in {"b", Null}}
ModelDocuments ==
    {[links |-> links, joints |-> joints] :
        links \in DocumentLinks,
        joints \in UNION {[1..n -> ModelJointElements] : n \in 0..MaxModelJoints}}

\* new URDFReader(): an empty robot
newURDFReader ==
    /\ robot' = EmptyRobot
    /\ currentPosition' = EmptyMap
    /\ result' = Void
    /\ UNCHANGED <<rootOffset, objectAngles, solver, kinematics, animator, assignment>>

\* the first parse of a reader (parse starts by resetting this.robot, so a
\* later parse of the same reader behaves like the first of a new one)
parseFirstDocument(document) ==
    /\ robot = EmptyRobot
    /\ result.op = "void"
    /\ parseDocument(document)

InitLoad ==
    /\ Loaded(EmptyRobot)
    /\ rootOffset \in RootOffsets
    /\ animator = NewAnimator(TRUE)

NextLoad ==
    \/ newURDFReader
    \/ /\ robot = EmptyRobot
       /\ \E document \in ModelDocuments : parseFirstDocument(document)

SpecLoad == InitLoad /\ [][NextLoad]_vars

\* ----------------------------------------------------------- CostCalculator
\* A unit quaternion (x, y, z, w) is written as an integer vector v standing
\* for v / |v|: the identity, the quarter, third and half turns about the
\* coordinate axes and diagonals (the 48 elements with |v|^2 in {1, 2, 4}).
Quaternion(x, y, z, w) == <<x, y, z, w>>
QuatNorm2(q) == q[1] * q[1] + q[2] * q[2] + q[3] * q[3] + q[4] * q[4]
QuatDot(a, b) == a[1] * b[1] + a[2] * b[2] + a[3] * b[3] + a[4] * b[4]
QuatNegate(q) == <<0 - q[1], 0 - q[2], 0 - q[3], 0 - q[4]>>
UnitQuaternions == {q \in [1..4 -> -1..1] : QuatNorm2(q) \in {1, 2, 4}}

\* Math.acos in thousandths of a radian, of a cosine given in halves
AcosOfHalves(c2) ==
    CASE c2 = 2 -> 0 [] c2 = 1 -> 1047 [] c2 = 0 -> 1570 [] c2 = -1 -> 2094 [] OTHER -> 3141

calculateRotationCostSigned(quat1, quat2) ==
    IF QuatDot(quat1, quat2) < 0 THEN 3141
    ELSE LET d == QuatDot(quat1, quat2)
             m == QuatNorm2(quat1) * QuatNorm2(quat2)
         IN  AcosOfHalves(Min(2, Max(-2, (2 * (2 * d * d - m)) \div m)))

\* CostCalculator.calculateRotationCost: dotProduct = |quat1 . quat2| = d / sqrt(m),
\* acos(min(1, max(-1, 2 * dotProduct^2 - 1)))
calculateRotationCost(quat1, quat2) ==
    LET d == Abs(QuatDot(quat1, quat2))
        m == QuatNorm2(quat1) * QuatNorm2(quat2)
    IN  AcosOfHalves(Min(2, Max(-2, (2 * (2 * d * d - m)) \div m)))

\* rotationWeight = 0.5 by default; weights are counted in quarters
DefaultRotationWeight == 2
\* the weight argument: <<>> when the caller passes none, <<w>> otherwise
RotationWeights == {<<>>, <<0>>, <<1>>, <<2>>, <<4>>}

calculateCombinedCostFalsyDefault(point1, point2, quat1, quat2, weightArg) ==
    LET rotationWeight == IF weightArg = <<>> \/ weightArg = <<0>>
                          THEN DefaultRotationWeight ELSE weightArg[1]
    IN  distanceTo(point1, point2)
        + (rotationWeight * calculateRotationCost(quat1, quat2)) \div 4

\* CostCalculator.calculateCombinedCost, in thousandths
calculateCombinedCost(point1, point2, quat1, quat2, weightArg) ==
    LET rotationWeight == IF weightArg = <<>> THEN DefaultRotationWeight ELSE weightArg[1]
        positionCost == distanceTo(point1, point2)
        rotationCost == calculateRotationCost(quat1, quat2)
    IN  positionCost + (rotationWeight * rotationCost) \div 4

CostPoints == {ZeroVec, Vec(1, 0, 0), Vec(1, 2, 2)}
CostQuaternions ==
    {Quaternion(0, 0, 0, 1), Quaternion(0, 0, 1, 1), Quaternion(0, 0, 1, 0),
     Quaternion(1, 1, 1, 1)}

CostReturn(op, value, args) ==
    [Return(op, Null, 0, FALSE, FALSE, 0, value, NullPose) EXCEPT !.args = args]

\* CostCalculator.calculatePositionCost(point1, point2)
costPosition(point1, point2) ==
    /\ result' = CostReturn("calculatePositionCost", distanceTo(point1, point2),
                            <<point1, point2>>)
    /\ UNCHANGED <<robot, rootOffset, currentPosition, objectAngles, solver, kinematics,
                   animator, assignment>>

\* CostCalculator.calculateRotationCost(quat1, quat2)
costRotation(quat1, quat2) ==
    /\ result' = CostReturn("calculateRotationCost", calculateRotationCost(quat1, quat2),
                            <<quat1, quat2>>)
    /\ UNCHANGED <<robot, rootOffset, currentPosition, objectAngles, solver, kinematics,
                   animator, assignment>>

\* CostCalculator.calculateCombinedCost(point1, point2, quat1, quat2[, rotationWeight])
costCombined(point1, point2, quat1, quat2, weightArg) ==
    /\ result' = CostReturn("calculateCombinedCost",
                            calculateCombinedCost(point1, point2, quat1, quat2, weightArg),
                            <<point1, point2, quat1, quat2, weightArg>>)
    /\ UNCHANGED <<robot, rootOffset, currentPosition, objectAngles, solver, kinematics,
                   animator, assignment>>

InitCost ==
    /\ Loaded(EmptyRobot)
    /\ rootOffset \in RootOffsets
    /\ animator = NewAnimator(TRUE)

NextCost ==
    \/ \E point1 \in CostPoints, point2 \in CostPoints : costPosition(point1, point2)
    \/ \E quat1 \in UnitQuaternions, quat2 \in UnitQuaternions : costRotation(quat1, quat2)
    \/ \E point1 \in CostPoints, point2 \in CostPoints, quat1 \in CostQuaternions,
          quat2 \in CostQuaternions, weightArg \in RotationWeights :
          costCombined(point1, point2, quat1, quat2, weightArg)

SpecCost == InitCost /\ [][NextCost]_vars

\* =================================================================== claims
\* the assignment that holds, for every revolute / prismatic joint with a
\* scene object, the value currently set on that object
ObjectAssignment ==
    [n \in SearchJoints(robot) \cap DOMAIN objectAngles |-> objectAngles[n]]

\* C1: whenever an end-effector is selected and its object is in the scene,
\* calculateFK for the values set on the joint objects returns the world
\* position the scene graph gives for the end-effector object.
C1_FKEqualsSceneGraph ==
    (solver.endEffectorName # Null /\ findObjectByName(robot, solver.endEffectorName))
    => calculateFK(robot, solver.endEffectorName, rootOffset, ObjectAssignment).position
       = getWorldPosition(robot, solver.endEffectorName, rootOffset, objectAngles)

\* C2: no step other than reset() raises bestDistance; in particular no search
\* step does, whatever target, end-effector and range were set in between.
C2_BestDistanceNeverIncreases ==
    [][reset \/ solver'.bestDistance <= solver.bestDistance]_vars

\* C2 witness: a search step evaluated a candidate that costs more than the
\* best found earlier, and rejected it.
C2_Witness ==
    /\ result.op = "randomizePose" /\ ~result.isNull /\ ~result.improved
    /\ solver.bestDistance < Infinity
    /\ result.distance > solver.bestDistance /\ result.distance < Infinity

\* C3: a search step that reports improved = false leaves every revolute /
\* prismatic joint at the position it had when the step began.
C3_RejectedStepRestoresPrevious ==
    [][(result'.op = "randomizePose" /\ ~result'.isNull /\ ~result'.improved)
        => \A n \in SearchJoints(robot) : currentPosition'[n] = currentPosition[n]]_vars

\* C4: a search step taken while targetPose is null reports an infinite cost
\* and improved = false, and leaves bestDistance and bestJointAngles as they were.
C4_NullTargetNeverImproves ==
    [][(result'.op = "randomizePose" /\ ~result'.isNull /\ ~solver.targetPose.defined)
        => /\ result'.distance = Infinity
           /\ ~result'.improved
           /\ solver'.bestDistance = solver.bestDistance
           /\ solver'.bestJointAngles = solver.bestJointAngles]_vars

\* C4 witness: a best solution was found, the target was then removed, and a
\* search step ran with an end-effector selected.
C4_Witness ==
    /\ result.op = "randomizePose" /\ ~result.isNull
    /\ ~solver.targetPose.defined
    /\ solver.endEffectorName # Null
    /\ solver.bestDistance < Infinity

\* a model is tree-shaped when no link is the child of two joints and no walk
\* from a link towards the root comes back to a link already visited
TreeShaped(rob) ==
    /\ \A l \in LinkNames(rob) :
           Cardinality({i \in DOMAIN rob.joints : rob.joints[i].child = l}) <= 1
    /\ WalkReturns(rob)

RootToTip(rob, chain, endEffectorName) ==
    /\ \A i \in 1..(Len(chain) - 1) : chain[i].childLink = chain[i + 1].parentLink
    /\ Len(chain) > 0 =>
          /\ chain[Len(chain)].childLink = endEffectorName
          /\ \A i \in DOMAIN rob.joints : rob.joints[i].child # chain[1].parentLink
    /\ Len(chain) = 0 => \A i \in DOMAIN rob.joints : rob.joints[i].child # endEffectorName

\* C7: a call of calculateFK, of the solver or of RobotKinematics, changes
\* nothing but its return value: the solver's fields (bestDistance,
\* bestJointAngles, currentJointAngles), every joint's position, the joint
\* objects, the model, the built chain and the assignment passed in stay as
\* they were.
C7_FKIsReadOnly ==
    [][(result'.op \in {"calculateFK", "RobotKinematics.calculateFK"})
        => /\ solver' = solver
           /\ currentPosition' = currentPosition
           /\ objectAngles' = objectAngles
           /\ robot' = robot
           /\ kinematics' = kinematics
           /\ assignment' = assignment]_vars

\* C7 witness: the solver evaluated FK for an assignment that differs from
\* the joints' current positions and moves the end-effector.
C7_Witness ==
    /\ result.op = "calculateFK" /\ ~result.isNull
    /\ \E n \in DOMAIN assignment : assignment[n] # currentPosition[n]
    /\ result.pose # calculateFK(robot, solver.endEffectorName, rootOffset, EmptyMap)

\* C8: for a tree-shaped model and an end-effector that is one of its links,
\* the chain built at construction is ordered root-to-tip: consecutive
\* entries connect, the last entry's child is the end-effector, and the first
\* entry's parent is no joint's child.
C8_ChainRootToTip ==
    (TreeShaped(robot) /\ kinematics.endEffectorName \in LinkNames(robot))
    => RootToTip(robot, kinematics.jointChain, kinematics.endEffectorName)

\* C8 witness: a chain of two joints was built for a model that lists the
\* tip joint before the root joint.
C8_Witness ==
    /\ TreeShaped(robot)
    /\ Len(kinematics.jointChain) = 2
    /\ kinematics.jointChain[1].joint.name = "j2"
    /\ kinematics.jointChain[2].joint.name = "j1"

IdentityPoseAt(position) ==
    [isNull |-> FALSE, position |-> position, orientation |-> IdentityRot]

\* C9: with a root link as end-effector the chain is empty and FK returns the
\* identity pose, moved to the root offset when one is supplied (the solver
\* always supplies the robot object's position), whatever the assignment holds.
C9_RootEndEffectorGivesIdentity ==
    /\ (result.op = "RobotKinematics.calculateFK"
          /\ kinematics.endEffectorName \in rootLinks(robot))
       => /\ Len(kinematics.jointChain) = 0
          /\ result.pose = IdentityPoseAt(IF result.arg = 1 THEN rootOffset ELSE ZeroVec)
    /\ (result.op = "calculateFK" /\ solver.endEffectorName \in rootLinks(robot))
       => result.pose = IdentityPoseAt(rootOffset)

\* C9 witness: FK was evaluated with a root offset for the root link "base"
\* and an assignment that gives some joint a non-zero value.
C9_Witness ==
    /\ result.op = "RobotKinematics.calculateFK" /\ result.arg = 1
    /\ kinematics.endEffectorName = "base" /\ "base" \in rootLinks(robot)
    /\ rootOffset # ZeroVec
    /\ \E n \in DOMAIN assignment : assignment[n] # 0

\* C10: with no end-effector selected, calculateFK returns the identity pose
\* (at the root offset when one is supplied), never null.
C10_NoEndEffectorGivesIdentity ==
    /\ (result.op = "calculateFK" /\ solver.endEffectorName = Null)
       => result.pose = IdentityPoseAt(rootOffset)
    /\ (result.op = "RobotKinematics.calculateFK" /\ kinematics.endEffectorName = Null)
       => result.pose = IdentityPoseAt(IF result.arg = 1 THEN rootOffset ELSE ZeroVec)

\* C5: for a joint that declares a limit pair, the value a requested of
\* URDFReader.setJointPosition or of RobotKinematics.enforceJointLimits comes
\* back as lower when a < lower, as upper when a > upper, and as a otherwise.
\* Stated for pairs with lower <= upper, for which the three cases agree.
C5_ClampYieldsNearestBound ==
    (/\ result.op \in {"setJointPosition", "enforceJointLimits"}
     /\ result.joint \in JointNames(robot)
     /\ GetJoint(robot, result.joint).type # "fixed"
     /\ GetJoint(robot, result.joint).limit.defined
     /\ GetJoint(robot, result.joint).limit.lower <= GetJoint(robot, result.joint).limit.upper)
    => LET limit == GetJoint(robot, result.joint).limit
       IN  result.value = IF result.arg < limit.lower THEN limit.lower
                          ELSE IF result.arg > limit.upper THEN limit.upper
                          ELSE result.arg

\* C6: the value a direct set or a jog of a movable joint returns is the value
\* an immediate read-back gives (getJointPosition after setJointPosition,
\* getJointAngle after adjustJointAngle).
C6_ReturnedValueIsReadBack ==
    /\ (result.op = "setJointPosition" /\ ~result.isNull)
       => result.value = getJointPosition(robot, currentPosition, result.joint).value
    /\ (result.op = "adjustJointAngle" /\ ~result.isNull)
       => result.value = getJointAngle(animator, robot, currentPosition, result.joint)

\* C11: on a model with no movable joint (every joint is fixed) no search step
\* reports improved = true.
C11_NoMovableJointNeverImproves ==
    (result.op = "randomizePose" /\ ~result.isNull /\ getMovableJoints(robot) = {})
    => ~result.improved

\* C12: every angle of the assignment RobotKinematics.randomizePose returns for
\* a parsed model lies within the limit pair its joint declares. Stated for
\* pairs with lower <= upper, the pairs that bound a non-empty range.
C12_RandomPoseWithinLimits ==
    result.op = "RobotKinematics.randomizePose"
    => \A n \in DOMAIN result.angles :
          LET limit == GetJoint(robot, n).limit
          IN  (limit.defined /\ limit.lower <= limit.upper)
              => (limit.lower <= result.angles[n] /\ result.angles[n] <= limit.upper)

\* C13: in a model built by parse every joint kept in the joint mapping names
\* a parent link and a child link that are keys of the link mapping.
C13_JointLinksExist ==
    result.op = "parse"
    => \A j \in Range(robot.joints) :
          j.parent \in LinkNames(robot) /\ j.child \in LinkNames(robot)

\* C14: the rotation cost of a unit quaternion against itself and against its
\* negation is 0, and the cost does not depend on the order of its arguments.
C14_RotationCostSymmetric ==
    result.op = "calculateRotationCost"
    => LET a == result.args[1]
           b == result.args[2]
       IN  /\ result.value = calculateRotationCost(b, a)
           /\ calculateRotationCost(a, a) = 0
           /\ calculateRotationCost(a, QuatNegate(a)) = 0
           /\ (b = a \/ b = QuatNegate(a)) => result.value = 0

\* C14 witness: the cost of a quarter turn against its negation was computed.
C14_Witness ==
    /\ result.op = "calculateRotationCost"
    /\ result.args[1] = Quaternion(0, 0, 1, 1)
    /\ result.args[2] = Quaternion(0, 0, -1, -1)
    /\ result.value = 0

\* C15: the combined cost is positionCost + rotationWeight * rotationCost, with
\* weight 0.5 (two quarters) when the caller passes none and the caller's
\* weight otherwise, a weight of 0 included.
C15_CombinedCostWeights ==
    result.op = "calculateCombinedCost"
    => LET positionCost == distanceTo(result.args[1], result.args[2])
           rotationCost == calculateRotationCost(result.args[3], result.args[4])
           passed == result.args[5]
       IN  /\ passed = <<>> => result.value = positionCost + (2 * rotationCost) \div 4
           /\ passed # <<>>
              => result.value = positionCost + (passed[1] * rotationCost) \div 4

\* C15 witness: a combined cost with both parts non-zero was computed with no
\* weight passed.
C15_Witness ==
    /\ result.op = "calculateCombinedCost"
    /\ result.args[5] = <<>>
    /\ distanceTo(result.args[1], result.args[2]) > 0
    /\ calculateRotationCost(result.args[3], result.args[4]) > 0
    /\ result.value > distanceTo(result.args[1], result.args[2])

\* C16: chain building terminates for every model and end-effector, models
\* with a cycle of joints or a joint from a link to itself included: a walk
\* that has begun returns.
C16_ChainBuildingTerminates ==
    (kinematics.status = "walking") ~> (kinematics.status = "returned")

\* every revolute / prismatic joint that declares a limit pair with
\* lower <= upper is at a position within the pair
SearchJointsWithinLimits ==
    \A n \in SearchJoints(robot) :
        LET limit == GetJoint(robot, n).limit
        IN  (limit.defined /\ limit.lower <= limit.upper)
            => (limit.lower <= currentPosition[n] /\ currentPosition[n] <= limit.upper)

\* C17: after any call of randomizePose every revolute / prismatic joint that
\* declares a limit pair with lower <= upper is within the pair.
C17_WithinLimitsAfterStep ==
    result.op = "randomizePose" => SearchJointsWithinLimits

\* C18: a search step snapshots and perturbs every movable joint, i.e. every
\* joint that is not fixed (the joints getMovableJoints returns).
C18_StepCoversMovableJoints ==
    (result.op = "randomizePose" /\ ~result.isNull)
    => getMovableJoints(robot) \subseteq DOMAIN SnapshotAngles(robot, currentPosition)

\* ---- the order of composition, stated independently of the two loops
\* the three transforms of one chain entry
OriginOf(jointData) ==
    IF jointData.origin.defined
    THEN createTransformMatrix(jointData.origin.xyz, jointData.origin.rpy)
    ELSE IdentityTransform
VisualOf(rob, childLink) == VisualStep(rob, IdentityTransform, childLink)
\* the motion transform each implementation builds for a joint
MotionOf(jointData, jointAngles, ofSolver) ==
    IF ofSolver
    THEN SolverMotionStep(IdentityTransform, jointData, jointAngles)
    ELSE LET angle == IF Has(jointAngles, jointData.name) THEN jointAngles[jointData.name] ELSE 0
         IN  Transform(makeRotationFromAxisAngle(Normalize(jointData.axis), angle), ZeroVec)
\* the motion transform a joint may contribute: none for a fixed joint and
\* none for a joint without an entry
MotionOfMovable(jointData, jointAngles, ofSolver) ==
    IF jointData.type = "fixed" \/ ~Has(jointAngles, jointData.name)
    THEN IdentityTransform
    ELSE MotionOf(jointData, jointAngles, ofSolver)

\* the product origin * motion * visual of entries i .. Len(chain), entry by
\* entry from the root end, grouped from the tip
RECURSIVE ComposeEntries(_, _, _, _, _, _)
ComposeEntries(rob, chain, i, jointAngles, ofSolver, movableOnly) ==
    IF i > Len(chain) THEN IdentityTransform
    ELSE LET jointData == chain[i].joint
             motion == IF movableOnly
                       THEN MotionOfMovable(jointData, jointAngles, ofSolver)
                       ELSE MotionOf(jointData, jointAngles, ofSolver)
             rest == ComposeEntries(rob, chain, i + 1, jointAngles, ofSolver, movableOnly)
         IN  multiply(OriginOf(jointData),
                      multiply(motion, multiply(VisualOf(rob, chain[i].childLink), rest)))

\* the pose a call of either calculateFK must return if it composes in that
\* order; the accumulator starts at the root offset when one is in effect
PoseInOrder(movableOnly) ==
    LET ofSolver == result.op = "calculateFK"
        e == IF ofSolver THEN solver.endEffectorName ELSE kinematics.endEffectorName
        start == IF ofSolver \/ result.arg = 1
                 THEN setPosition(IdentityTransform, rootOffset)
                 ELSE IdentityTransform
    IN  decomposeTransform(multiply(start,
            ComposeEntries(robot, computeJointChain(robot, e), 1, assignment,
                           ofSolver, movableOnly)))
IsFKReturn ==
    /\ result.op \in {"calculateFK", "RobotKinematics.calculateFK"}
    /\ ~result.isNull

\* C19: calculateFK (both implementations) right-multiplies onto the
\* accumulator in root-to-tip chain order, and per chain entry in the order
\* origin, motion, visual origin, before any transform of the next entry.
C19_ComposesOriginMotionVisual ==
    IsFKReturn => result.pose = PoseInOrder(FALSE)
\* a two-entry chain where every entry has an origin, a non-zero motion and a
\* visual origin, and where motion and visual origin of the first entry do
\* not commute
C19_Witness ==
    /\ result.op = "calculateFK"
    /\ ~result.isNull
    /\ LET chain == computeJointChain(robot, solver.endEffectorName)
       IN  /\ Len(chain) = 2
           /\ \A i \in 1..2 :
                 /\ chain[i].joint.origin.defined
                 /\ Has(assignment, chain[i].joint.name)
                 /\ assignment[chain[i].joint.name] % 4 # 0
                 /\ VisualOf(robot, chain[i].childLink) # IdentityTransform
           /\ multiply(MotionOf(chain[1].joint, assignment, TRUE),
                       VisualOf(robot, chain[1].childLink))
              # multiply(VisualOf(robot, chain[1].childLink),
                         MotionOf(chain[1].joint, assignment, TRUE))

\* C20: in calculateFK (both implementations) a fixed joint, and a joint with
\* no entry in the assignment, contributes no motion transform, whatever the
\* assignment holds.
C20_FixedOrAbsentContributesNoMotion ==
    IsFKReturn => result.pose = PoseInOrder(TRUE)

\* ---- the kind of motion a joint's type calls for
\* a rotation about the axis for a revolute joint with an entry, a translation
\* along the axis for a prismatic joint with an entry; for any other chain
\* entry whatever the implementation composes
MotionByType(jointData, jointAngles, ofSolver) ==
    IF IsSearchJoint(jointData) /\ Has(jointAngles, jointData.name)
    THEN LET value == jointAngles[jointData.name]
             along == Normalize(jointData.axis)
         IN  IF jointData.type = "revolute"
             THEN Transform(makeRotationAxis(along, value), ZeroVec)
             ELSE makeTranslation(VecScale(along, value))
    ELSE MotionOf(jointData, jointAngles, ofSolver)

RECURSIVE ComposeByType(_, _, _, _, _)
ComposeByType(rob, chain, i, jointAngles, ofSolver) ==
    IF i > Len(chain) THEN IdentityTransform
    ELSE multiply(OriginOf(chain[i].joint),
                  multiply(MotionByType(chain[i].joint, jointAngles, ofSolver),
                           multiply(VisualOf(rob, chain[i].childLink),
                                    ComposeByType(rob, chain, i + 1, jointAngles, ofSolver))))

\* C21: in calculateFK (both implementations) a revolute joint's motion is a
\* rotation about its axis by the assigned value and a prismatic joint's
\* motion is a translation along its axis by the assigned value, never a
\* rotation.
C21_MotionMatchesJointType ==
    IsFKReturn =>
        LET ofSolver == result.op = "calculateFK"
            e == IF ofSolver THEN solver.endEffectorName ELSE kinematics.endEffectorName
            start == IF ofSolver \/ result.arg = 1
                     THEN setPosition(IdentityTransform, rootOffset)
                     ELSE IdentityTransform
        IN  result.pose = decomposeTransform(multiply(start,
                ComposeByType(robot, computeJointChain(robot, e), 1, assignment, ofSolver)))

PrincipalAxes == {<<1, 0, 0>>, <<0, 1, 0>>, <<0, 0, 1>>}

\* C22: after parse, a joint declared without an axis is used by FK and by
\* the search step with a unit principal axis, not the zero vector.
C22_MissingAxisDefaultsToPrincipalAxis ==
    result.op = "parse"
    => \A i \in DOMAIN result.args[1].joints :
          LET jointElement == result.args[1].joints[i]
          IN  (jointElement.axis = Null /\ jointElement.name \in JointNames(robot))
              => axisVec(GetJoint(robot, jointElement.name)) \in PrincipalAxes

\* ---- forests
\* walking up from `link` through the joint it is the child of ends within
\* `fuel` steps
RECURSIVE ReachesTop(_, _, _)
ReachesTop(rob, link, fuel) ==
    IF \A j \in Range(rob.joints) : j.child # link THEN TRUE
    ELSE IF fuel = 0 THEN FALSE
    ELSE ReachesTop(rob, (CHOOSE j \in Range(rob.joints) : j.child = link).parent, fuel - 1)
\* acyclic, and each link the child of at most one joint
Forest(rob) ==
    /\ \A i, k \in DOMAIN rob.joints : rob.joints[i].child = rob.joints[k].child => i = k
    /\ \A j \in Range(rob.joints) : ReachesTop(rob, j.child, Len(rob.joints))

\* C24: after buildTree rootLinks is the set of link ids that are not the
\* child of any kept joint, and it is non-empty for every model with at least
\* one link whose joints form a forest.
C24_RootLinksOfForestNonEmpty ==
    result.op = "parse"
    => /\ rootLinks(robot) = LinkNames(robot) \ {j.child : j \in Range(robot.joints)}
       /\ (LinkNames(robot) # {} /\ Forest(robot)) => rootLinks(robot) # {}

\* ---- what parse keeps
Complete(jointElement) ==
    /\ jointElement.name # Null /\ jointElement.type # Null
    /\ jointElement.parent # Null /\ jointElement.child # Null

\* C23: parse keeps a joint record in the joint mapping if and only if it has
\* a name, a kind, a parent and a child; a record missing any of them is
\* dropped, and all links and all other joints are still present.  The
\* mapping is keyed by name: its keys are the names of the complete records,
\* one entry per name, each entry carrying the fields of a complete record of
\* that name; the link mapping holds every named <link>.
C23_KeepsExactlyCompleteJoints ==
    result.op = "parse"
    => LET document == result.args[1]
           complete == {i \in DOMAIN document.joints : Complete(document.joints[i])}
       IN  /\ JointNames(robot) = {document.joints[i].name : i \in complete}
           /\ Len(robot.joints) = Cardinality(JointNames(robot))
           /\ \A j \in Range(robot.joints) :
                 \E i \in complete :
                    /\ document.joints[i].name = j.name
                    /\ document.joints[i].type = j.type
                    /\ document.joints[i].parent = j.parent
                    /\ document.joints[i].child = j.child
           /\ LinkNames(robot) = {document.links[i].name : i \in DOMAIN document.links} \ {Null}
\* a document where one named record lacks a field and is dropped while
\* another record is kept
C23_Witness ==
    /\ result.op = "parse"
    /\ LET document == result.args[1]
       IN  /\ Len(document.links) >= 2
           /\ \E i, k \in DOMAIN document.joints :
                 /\ ~Complete(document.joints[i])
                 /\ document.joints[i].name # Null
                 /\ document.joints[i].name \notin JointNames(robot)
                 /\ Complete(document.joints[k])
                 /\ document.joints[k].name \in JointNames(robot)

\* C25: a search step accepts exactly on strict improvement (an equal cost is
\* rejected), and after a step that reports improved = true bestDistance is
\* the reported cost and bestJointAngles maps exactly the revolute / prismatic
\* joints to their current positions.
C25_AcceptsOnlyStrictImprovement ==
    [][(result'.op = "randomizePose" /\ ~result'.isNull)
        => /\ result'.improved <=> result'.distance < solver.bestDistance
           /\ result'.improved =>
                 /\ solver'.bestDistance = result'.distance
                 /\ DOMAIN solver'.bestJointAngles = SearchJoints(robot')
                 /\ \A n \in SearchJoints(robot') :
                       solver'.bestJointAngles[n] = currentPosition'[n]]_vars
\* a step whose candidate costs exactly as much as the best found so far was
\* rejected
C25_Witness ==
    /\ result.op = "randomizePose" /\ ~result.isNull /\ ~result.improved
    /\ result.distance = solver.bestDistance
    /\ solver.bestDistance < Infinity
    /\ solver.bestJointAngles # EmptyMap

\* the cost of the stored best assignment as a search step would measure it
\* now: the joint objects set to bestJointAngles, the end-effector currently
\* selected, the target pose currently set
CostOfBest ==
    LET endEffector == solver.endEffectorName
        objects == applyConfigurationObjects(objectAngles, solver.bestJointAngles)
    IN  IF endEffector # Null /\ findObjectByName(robot, endEffector)
        THEN calculatePositionCost(solver.targetPose,
                                   getWorldPosition(robot, endEffector, rootOffset, objects),
                                   getWorldQuaternion(robot, endEffector, rootOffset, objects))
        ELSE Infinity

\* C26: whenever bestJointAngles is non-empty, bestDistance is the cost of
\* bestJointAngles against the target pose currently set, after any
\* interleaving of search steps with setTargetPose and setEndEffector.
C26_BestDistanceIsCostOfBest ==
    solver.bestJointAngles # EmptyMap => solver.bestDistance = CostOfBest

\* C27: in every reachable state, from the state right after parse onward,
\* every movable joint that declares a limit pair with lower <= upper has a
\* current position within the pair.
C27_MovableJointsAlwaysWithinLimits ==
    \A n \in getMovableJoints(robot) :
        LET limit == GetJoint(robot, n).limit
        IN  (limit.defined /\ limit.lower <= limit.upper)
            => (limit.lower <= currentPosition[n] /\ currentPosition[n] <= limit.upper)

\* C28: whenever isAnimating is true, currentJointIndex is a valid index into
\* the current list of animatable joints, so update always reports a defined
\* currentJoint, for any interleaving of startAnimation, update, setJoints (a
\* new model being loaded) and stopAnimation.
C28_AnimationIndexValid ==
    /\ animator.isAnimating
       => animator.currentJointIndex < Len(AnimatableJoints(animator, robot))
    /\ (result.op = "update" /\ ~result.isNull) => result.joint # Null

\* C29: a call of adjustJointAngle that fails (returns null) leaves the
\* animator state unchanged: isAnimating and every stored joint angle are the
\* same as before the call.
C29_FailedAdjustChangesNothing ==
    [][(result'.op = "adjustJointAngle" /\ result'.isNull)
        => /\ animator'.isAnimating = animator.isAnimating
           /\ animator'.jointAngles = animator.jointAngles]_vars

\* C30: setJointPosition on a name that is not in the model returns null and
\* changes no joint's position; on a fixed joint it returns that joint's
\* unchanged current position and changes no joint's position.
C30_UnknownOrFixedJointUntouched ==
    [][(result'.op = "setJointPosition")
        => /\ result'.joint \notin JointNames(robot)
              => (result'.isNull /\ currentPosition' = currentPosition)
           /\ (result'.joint \in JointNames(robot)
               /\ GetJoint(robot, result'.joint).type = "fixed")
              => /\ ~result'.isNull
                 /\ result'.value = currentPosition[result'.joint]
                 /\ currentPosition' = currentPosition]_vars
\* a call on a fixed joint asked for a position other than the one it has
C30_Witness ==
    /\ result.op = "setJointPosition" /\ ~result.isNull
    /\ result.joint \in JointNames(robot)
    /\ GetJoint(robot, result.joint).type = "fixed"
    /\ result.arg # currentPosition[result.joint]

=============================================================================
